---------------------------- MODULE Spec2Model ----------------------------
(***************************************************************************)
(* A model of normalize-cnf.c: the streaming DIMACS CNF normalizer.        *)
(*                                                                         *)
(* Characters are one-character strings, a stream is a sequence of them,   *)
(* and EOF is the value getc returns at the end of the stream.  The local  *)
(* variables of main() and the file-scope variables are the fields of one  *)
(* record; every step of main() between two calls of getc is an operator   *)
(* from such a record to the next one, so that a whole run is the          *)
(* iteration of these operators (Run) and the state machine takes one of   *)
(* them per transition.                                                    *)
(***************************************************************************)
EXTENDS Integers, Sequences, FiniteSets, TLC

VARIABLES pc, gbd, input_path, output_path, input_file, pos, close_input,
          input_open, ch, p, variables, clauses, parsed, lit, sign, first,
          output_file, close_output, output_open, stderr, exit_code,
          input_released, output_released, pclose_result

vars == <<pc, gbd, input_path, output_path, input_file, pos, close_input,
          input_open, ch, p, variables, clauses, parsed, lit, sign, first,
          output_file, close_output, output_open, stderr, exit_code,
          input_released, output_released, pclose_result>>

-----------------------------------------------------------------------------
(* Characters and the C library.                                           *)

EOF == "EOF"

INT_MAX == 2147483647

Digits == <<"0", "1", "2", "3", "4", "5", "6", "7", "8", "9">>

isdigit(c) == \E i \in 1..10 : Digits[i] = c

\* ch - '0' for a digit ch
DigitValue(c) == (CHOOSE i \in 1..10 : Digits[i] = c) - 1

\* The characters printf's %d writes for the integer n.
RECURSIVE Unsigned(_)
Unsigned(n) == IF n < 10 THEN <<Digits[n + 1]>>
               ELSE Unsigned(n \div 10) \o <<Digits[(n % 10) + 1]>>

PrintInt(n) == IF n < 0 THEN <<"-">> \o Unsigned(0 - n) ELSE Unsigned(n)

\* The paths the command line can name: NoPath is an absent argument, "-" the
\* standard stream, and has_suffix tells the paths that end in ".xz".
NoPath == "NULL"

Paths == {NoPath, "-", "f.cnf", "f.cnf.xz"}

has_suffix(path) == path = "f.cnf.xz"

\* The string the header loop walks.
CnfWord == <<" ", "c", "n", "f", " ">>

-----------------------------------------------------------------------------
(* The state of the program as a record, and its elementary operations.    *)

\* lines 59-73: the state once the arguments are parsed, on the input stream
\* with the characters in.  exit_code is NoExit while the process runs.
NoExit == -1

Start(in, g, ipath, opath) ==
  [pc |-> "open_input", gbd |-> g, input_path |-> ipath, output_path |-> opath,
   input_file |-> in, pos |-> 0, close_input |-> 0, input_open |-> FALSE,
   ch |-> EOF, p |-> 0, variables |-> 0, clauses |-> 0, parsed |-> 0,
   lit |-> 0, sign |-> 1, first |-> TRUE, output_file |-> <<>>,
   close_output |-> 0, output_open |-> FALSE, stderr |-> <<>>,
   exit_code |-> NoExit, input_released |-> "no", output_released |-> "no",
   pclose_result |-> "none"]

\* The character getc returns, and the state of the stream after the call.
Peek(s) == IF s.pos < Len(s.input_file) THEN s.input_file[s.pos + 1] ELSE EOF

getc(s) == [s EXCEPT !.pos = IF s.pos < Len(s.input_file) THEN s.pos + 1 ELSE s.pos,
                     !.ch = Peek(s)]

\* getc whose result is compared but not stored (the header loop).
getc_unassigned(s) ==
  [s EXCEPT !.pos = IF s.pos < Len(s.input_file) THEN s.pos + 1 ELSE s.pos]

fputs(s, str) == [s EXCEPT !.output_file = s.output_file \o str]

\* die that returns to its caller instead of ending the process.
die_returns(s, msg) ==
  [s EXCEPT !.stderr = s.stderr \o <<"normalize: error in '", s.input_path, "': ",
                                     msg, "\n">>,
            !.exit_code = 1]

die(s, msg) ==
  [s EXCEPT !.stderr = s.stderr \o <<"normalize: error in '", s.input_path, "': ",
                                     msg, "\n">>,
            !.exit_code = 1,
            !.pc = "exit"]

END_OF_FILE_IN_COMMENT(s) == die(s, "end-of-file in comment")

INVALID_VARIABLES(s) == die(s, "invalid number of variables")

INVALID_CLAUSES(s) == die(s, "invalid number of clauses")

EXPECTED_NEW_LINE_AFTER_HEADER(s) ==
  die(s, "expected white-space and a new-line after clauses")

INVALID_LITERAL(s) == die(s, "invalid literal")

\* Overflows with the first test off by one.
Overflows_early(acc, c) ==
  \/ INT_MAX \div 10 <= acc
  \/ INT_MAX - DigitValue(c) < acc * 10

\* One round of a digit loop on the accumulator acc with the digit character
\* c: the two overflow tests and the new value.
Overflows(acc, c) ==
  \/ INT_MAX \div 10 < acc
  \/ INT_MAX - DigitValue(c) < acc * 10

Accumulate(acc, c) == acc * 10 + DigitValue(c)

-----------------------------------------------------------------------------
(* The steps of main(), one per call of getc.                              *)

\* open_input that opens the output at once.
open_input_eager(s, res) ==
  IF s.input_path = NoPath \/ s.input_path = "-"
  THEN [s EXCEPT !.input_path = "<stdin>", !.close_input = 0,
                 !.input_open = TRUE, !.output_open = TRUE, !.pc = "preamble"]
  ELSE IF res = "missing" THEN die(s, "input file '%s' does not exist")
  ELSE LET t == [s EXCEPT !.close_input = IF has_suffix(s.input_path) THEN 2 ELSE 1]
       IN IF res = "fail" THEN die(t, "can not read input file '%s'")
          ELSE [t EXCEPT !.input_open = TRUE, !.output_open = TRUE,
                         !.pc = "preamble"]

\* lines 74-92: the input stream is opened; res is what the file system
\* answers: "ok", "missing" (stat fails) or "fail" (fopen or popen fails).
open_input(s, res) ==
  IF s.input_path = NoPath \/ s.input_path = "-"
  THEN [s EXCEPT !.input_path = "<stdin>", !.close_input = 0,
                 !.input_open = TRUE, !.pc = "preamble"]
  ELSE IF res = "missing" THEN die(s, "input file '%s' does not exist")
  ELSE LET t == [s EXCEPT !.close_input = IF has_suffix(s.input_path) THEN 2 ELSE 1]
       IN IF res = "fail" THEN die(t, "can not read input file '%s'")
          ELSE [t EXCEPT !.input_open = TRUE, !.pc = "preamble"]

\* lines 94-109: the first character of a line before the header.
preamble(s) ==
  LET t == getc(s) IN
  IF t.ch = "c" THEN [t EXCEPT !.pc = "preamble_comment"]
  ELSE IF t.ch = " " \/ t.ch = "\t" \/ t.ch = "\r"
       THEN [t EXCEPT !.pc = "preamble_space"]
  ELSE IF t.ch # "\n"
       THEN IF t.ch # "p"
            THEN die(t, "expected 'p cnf ...' header or 'c' comment")
            ELSE [t EXCEPT !.pc = "header", !.p = 1]
  ELSE t

\* lines 97-100
preamble_comment(s) ==
  LET t == getc(s) IN
  IF t.ch = "\n" THEN [t EXCEPT !.pc = "preamble"]
  ELSE IF t.ch = EOF THEN END_OF_FILE_IN_COMMENT(t)
  ELSE t

\* The white-space loop of the preamble without its test for the end of the
\* stream.
preamble_space_unending(s) ==
  LET t == getc(s) IN
  IF t.ch = "\n" THEN [t EXCEPT !.pc = "preamble"] ELSE t

\* lines 102-104
preamble_space(s) ==
  LET t == getc(s) IN
  IF t.ch = "\n" THEN [t EXCEPT !.pc = "preamble"]
  ELSE IF t.ch = EOF THEN die(t, "unexpected end-of-file after white-space")
  ELSE t

\* lines 110-112: one character of " cnf ".
header(s) ==
  LET t == getc_unassigned(s) IN
  IF CnfWord[s.p] # Peek(s) THEN die(t, "invalid 'p cnf ...' header")
  ELSE IF s.p = Len(CnfWord) THEN [t EXCEPT !.pc = "variables_first"]
  ELSE [t EXCEPT !.p = s.p + 1]

\* lines 113-117
variables_first(s) ==
  LET t == getc(s) IN
  IF ~isdigit(t.ch) THEN INVALID_VARIABLES(t)
  ELSE [t EXCEPT !.variables = DigitValue(t.ch), !.pc = "variables_digits"]

\* lines 118-128
variables_digits(s) ==
  LET t == getc(s) IN
  IF isdigit(t.ch)
  THEN IF Overflows(t.variables, t.ch) THEN INVALID_VARIABLES(t)
       ELSE [t EXCEPT !.variables = Accumulate(t.variables, t.ch)]
  ELSE IF t.ch # " " THEN die(t, "expected space in header after variables")
  ELSE [t EXCEPT !.pc = "clauses_first"]

\* lines 129-133
clauses_first(s) ==
  LET t == getc(s) IN
  IF ~isdigit(t.ch) THEN INVALID_CLAUSES(t)
  ELSE [t EXCEPT !.clauses = DigitValue(t.ch), !.pc = "clauses_digits"]

\* lines 145-151, entered with the character after the clause count in ch.
header_end(s) ==
  IF s.ch = " " \/ s.ch = "\t" THEN [s EXCEPT !.pc = "header_space"]
  ELSE IF s.ch # "\n" THEN EXPECTED_NEW_LINE_AFTER_HEADER(s)
  ELSE [s EXCEPT !.pc = "open_output"]

\* lines 134-143
clauses_digits(s) ==
  LET t == getc(s) IN
  IF isdigit(t.ch)
  THEN IF Overflows(t.clauses, t.ch) THEN INVALID_CLAUSES(t)
       ELSE [t EXCEPT !.clauses = Accumulate(t.clauses, t.ch)]
  ELSE IF t.ch = "\r" THEN [t EXCEPT !.pc = "header_cr"]
  ELSE header_end(t)

\* line 144
header_cr(s) == header_end(getc(s))

\* lines 146-149
header_space(s) ==
  LET t == getc(s) IN
  IF t.ch = "\n" THEN [t EXCEPT !.pc = "open_output"]
  ELSE IF t.ch # " " /\ t.ch # "\t" /\ t.ch # "\r"
       THEN EXPECTED_NEW_LINE_AFTER_HEADER(t)
  ELSE t

\* open_output with the two numbers of the header line exchanged.
open_output_swapped(s, res) ==
  LET std == s.output_path = NoPath \/ s.output_path = "-"
      k == IF std THEN 0 ELSE IF has_suffix(s.output_path) THEN 2 ELSE 1
  IN
  IF ~std /\ res = "fail"
  THEN die([s EXCEPT !.close_output = k], "can not write output file '%s'")
  ELSE LET t == [s EXCEPT !.close_output = k, !.output_open = TRUE]
           u == IF ~t.gbd
                THEN fputs(t, <<"p", " ", "c", "n", "f", " ">>
                                \o PrintInt(t.clauses) \o <<" ">>
                                \o PrintInt(t.variables) \o <<"\n">>)
                ELSE t
       IN [u EXCEPT !.parsed = 0, !.lit = 0, !.first = TRUE, !.pc = "body"]

\* lines 152-171: the output stream is opened (res is "ok" or "fail"), the
\* header line is written unless gbd, the body's locals are initialised.
open_output(s, res) ==
  LET std == s.output_path = NoPath \/ s.output_path = "-"
      k == IF std THEN 0 ELSE IF has_suffix(s.output_path) THEN 2 ELSE 1
  IN
  IF ~std /\ res = "fail"
  THEN die([s EXCEPT !.close_output = k], "can not write output file '%s'")
  ELSE LET t == [s EXCEPT !.close_output = k, !.output_open = TRUE]
           u == IF ~t.gbd
                THEN fputs(t, <<"p", " ", "c", "n", "f", " ">>
                                \o PrintInt(t.variables) \o <<" ">>
                                \o PrintInt(t.clauses) \o <<"\n">>)
                ELSE t
       IN [u EXCEPT !.parsed = 0, !.lit = 0, !.first = TRUE, !.pc = "body"]

\* emit without the test of the declared count: every terminator is written.
emit_unchecked(s) ==
  IF s.lit # 0 THEN [fputs(s, PrintInt(s.sign * s.lit) \o <<" ">>) EXCEPT !.pc = "body"]
  ELSE IF s.gbd
       THEN [fputs(s, <<"0">>) EXCEPT !.parsed = s.parsed + 1, !.pc = "body"]
  ELSE [fputs(s, <<"0", "\n">>) EXCEPT !.parsed = s.parsed + 1, !.pc = "body"]

\* emit that holds a literal back instead of writing it.
emit_held(s) ==
  IF s.lit # 0 THEN [s EXCEPT !.pc = "body"]
  ELSE IF s.parsed = s.clauses
       THEN die([s EXCEPT !.parsed = s.parsed + 1], "too many clauses")
  ELSE IF s.gbd
       THEN [fputs(s, <<"0">>) EXCEPT !.parsed = s.parsed + 1, !.pc = "body"]
  ELSE [fputs(s, <<"0", "\n">>) EXCEPT !.parsed = s.parsed + 1, !.pc = "body"]

\* emit that tests the declared count in Standard mode only.
emit_gbd_unchecked(s) ==
  IF s.lit # 0 THEN [fputs(s, PrintInt(s.sign * s.lit) \o <<" ">>) EXCEPT !.pc = "body"]
  ELSE IF s.gbd
       THEN [fputs(s, <<"0">>) EXCEPT !.parsed = s.parsed + 1, !.pc = "body"]
  ELSE IF s.parsed = s.clauses
       THEN die([s EXCEPT !.parsed = s.parsed + 1], "too many clauses")
  ELSE [fputs(s, <<"0", "\n">>) EXCEPT !.parsed = s.parsed + 1, !.pc = "body"]

\* emit with the literal written without the space after it.
emit_glued(s) ==
  IF s.lit # 0 THEN [fputs(s, PrintInt(s.sign * s.lit)) EXCEPT !.pc = "body"]
  ELSE IF s.parsed = s.clauses
       THEN die([s EXCEPT !.parsed = s.parsed + 1], "too many clauses")
  ELSE IF s.gbd
       THEN [fputs(s, <<"0">>) EXCEPT !.parsed = s.parsed + 1, !.pc = "body"]
  ELSE [fputs(s, <<"0", "\n">>) EXCEPT !.parsed = s.parsed + 1, !.pc = "body"]

\* lines 234-241: the literal just read is written or counted.
emit(s) ==
  IF s.lit # 0 THEN [fputs(s, PrintInt(s.sign * s.lit) \o <<" ">>) EXCEPT !.pc = "body"]
  ELSE IF s.parsed = s.clauses
       THEN die([s EXCEPT !.parsed = s.parsed + 1], "too many clauses")
  ELSE IF s.gbd
       THEN [fputs(s, <<"0">>) EXCEPT !.parsed = s.parsed + 1, !.pc = "body"]
  ELSE [fputs(s, <<"0", "\n">>) EXCEPT !.parsed = s.parsed + 1, !.pc = "body"]

\* A separator test that lets any character end a literal.
separator_lenient(s) ==
  IF s.ch = "c" THEN [s EXCEPT !.pc = "literal_comment"] ELSE emit(s)

\* lines 223-233, entered with the character after the literal in ch.
separator(s) ==
  IF s.ch # " " /\ s.ch # "\n" /\ s.ch # "\t" /\ s.ch # "c" /\ s.ch # EOF
  THEN die(s, "expected white-space after literal")
  ELSE IF s.ch = "c" THEN [s EXCEPT !.pc = "literal_comment"]
  ELSE emit(s)

\* lines 226-232
literal_comment(s) ==
  LET t == getc(s) IN
  IF t.ch = "\n" THEN emit(t)
  ELSE IF t.ch = EOF
       THEN IF t.lit # 0 \/ t.parsed < t.clauses THEN END_OF_FILE_IN_COMMENT(t)
            ELSE emit(t)
  ELSE t

\* literal_digits without the test against the declared variables.
literal_digits_unbounded(s) ==
  LET t == getc(s) IN
  IF isdigit(t.ch)
  THEN IF Overflows(t.lit, t.ch) THEN INVALID_LITERAL(t)
       ELSE [t EXCEPT !.lit = Accumulate(t.lit, t.ch)]
  ELSE IF t.ch = "\r" THEN [t EXCEPT !.pc = "literal_cr"]
  ELSE separator(t)

\* lines 210-221
literal_digits(s) ==
  LET t == getc(s) IN
  IF isdigit(t.ch)
  THEN IF Overflows(t.lit, t.ch) THEN INVALID_LITERAL(t)
       ELSE [t EXCEPT !.lit = Accumulate(t.lit, t.ch)]
  ELSE IF t.lit > t.variables THEN INVALID_LITERAL(t)
  ELSE IF t.ch = "\r" THEN [t EXCEPT !.pc = "literal_cr"]
  ELSE separator(t)

\* line 222
literal_cr(s) == separator(getc(s))

\* literal_first that takes a terminator at the start of a clause for an
\* error.
literal_first_nonempty(s) ==
  IF ~isdigit(s.ch) \/ (s.lit = 0 /\ s.ch = "0") THEN INVALID_LITERAL(s)
  ELSE LET t == IF s.gbd /\ s.lit = 0
                THEN IF s.first THEN [s EXCEPT !.first = FALSE]
                     ELSE fputs(s, <<" ">>)
                ELSE s
       IN [t EXCEPT !.lit = DigitValue(s.ch), !.pc = "literal_digits"]

\* literal_first with the space written before the first clause too.
literal_first_spaced(s) ==
  IF ~isdigit(s.ch) THEN INVALID_LITERAL(s)
  ELSE LET t == IF s.gbd /\ s.lit = 0 THEN fputs(s, <<" ">>) ELSE s
       IN [t EXCEPT !.lit = DigitValue(s.ch), !.pc = "literal_digits"]

\* lines 200-209, entered with the first character of the magnitude in ch.
literal_first(s) ==
  IF ~isdigit(s.ch) THEN INVALID_LITERAL(s)
  ELSE LET t == IF s.gbd /\ s.lit = 0
                THEN IF s.first THEN [s EXCEPT !.first = FALSE]
                     ELSE fputs(s, <<" ">>)
                ELSE s
       IN [t EXCEPT !.lit = DigitValue(s.ch), !.pc = "literal_digits"]

\* line 197 and what follows it
literal_sign(s) == literal_first(getc(s))

\* lines 193-199, entered with the character that is not a comment start.
token(s) ==
  IF s.ch = " " \/ s.ch = "\n" \/ s.ch = "\t" THEN [s EXCEPT !.pc = "body"]
  ELSE IF s.ch = "-" THEN [s EXCEPT !.sign = -1, !.pc = "literal_sign"]
  ELSE literal_first([s EXCEPT !.sign = 1])

\* body with comments recognised between clauses only.
body_comment_between_clauses(s) ==
  LET t == getc(s) IN
  IF t.ch = EOF
  THEN IF t.lit # 0 THEN die(t, "zero at end of last clause missing")
       ELSE IF t.parsed < t.clauses THEN die(t, "clause missing")
       ELSE [t EXCEPT !.pc = "close"]
  ELSE IF t.ch = "c" /\ t.lit = 0 THEN [t EXCEPT !.pc = "body_comment"]
  ELSE IF t.ch = "\r" THEN [t EXCEPT !.pc = "body_cr"]
  ELSE token(t)

\* body without the test for an open clause at the end of the stream.
body_unterminated(s) ==
  LET t == getc(s) IN
  IF t.ch = EOF
  THEN IF t.parsed < t.clauses THEN die(t, "clause missing")
       ELSE [t EXCEPT !.pc = "close"]
  ELSE IF t.ch = "c" THEN [t EXCEPT !.pc = "body_comment"]
  ELSE IF t.ch = "\r" THEN [t EXCEPT !.pc = "body_cr"]
  ELSE token(t)

\* body without the test of the clause count at the end of the stream.
body_uncounted(s) ==
  LET t == getc(s) IN
  IF t.ch = EOF
  THEN IF t.lit # 0 THEN die(t, "zero at end of last clause missing")
       ELSE [t EXCEPT !.pc = "close"]
  ELSE IF t.ch = "c" THEN [t EXCEPT !.pc = "body_comment"]
  ELSE IF t.ch = "\r" THEN [t EXCEPT !.pc = "body_cr"]
  ELSE token(t)

\* lines 173-191: the first character of a token of the body.
body(s) ==
  LET t == getc(s) IN
  IF t.ch = EOF
  THEN IF t.lit # 0 THEN die(t, "zero at end of last clause missing")
       ELSE IF t.parsed < t.clauses THEN die(t, "clause missing")
       ELSE [t EXCEPT !.pc = "close"]
  ELSE IF t.ch = "c" THEN [t EXCEPT !.pc = "body_comment"]
  ELSE IF t.ch = "\r" THEN [t EXCEPT !.pc = "body_cr"]
  ELSE token(t)

\* lines 182-189
body_comment(s) ==
  LET t == getc(s) IN
  IF t.ch = "\n" THEN [t EXCEPT !.pc = "body"]
  ELSE IF t.ch = EOF
       THEN IF t.lit # 0 \/ t.parsed < t.clauses THEN END_OF_FILE_IN_COMMENT(t)
            ELSE [t EXCEPT !.pc = "body"]
  ELSE t

\* line 192 and what follows it
body_cr(s) == token(getc(s))

\* lines 243-249: the input is released with fclose or, a pipe, with pclose,
\* whose result (res, the status of the subprocess) is not looked at; the
\* output is released with fclose, a pipe too; the process returns 0.
close(s, res) ==
  [s EXCEPT !.input_open = IF s.close_input # 0 THEN FALSE ELSE s.input_open,
            !.input_released = IF s.close_input = 1 THEN "fclose"
                               ELSE IF s.close_input = 2 THEN "pclose"
                               ELSE s.input_released,
            !.pclose_result = IF s.close_input = 2 THEN res ELSE s.pclose_result,
            !.output_open = IF s.close_output # 0 THEN FALSE ELSE s.output_open,
            !.output_released = IF s.close_output # 0 THEN "fclose"
                                ELSE s.output_released,
            !.exit_code = 0,
            !.pc = "exit"]

-----------------------------------------------------------------------------
(* A whole run as a function of the input: the steps iterated until exit,  *)
(* on streams that open.                                                   *)

Step(s, res) ==
  CASE s.pc = "open_input" -> open_input(s, res)
    [] s.pc = "preamble" -> preamble(s)
    [] s.pc = "preamble_comment" -> preamble_comment(s)
    [] s.pc = "preamble_space" -> preamble_space(s)
    [] s.pc = "header" -> header(s)
    [] s.pc = "variables_first" -> variables_first(s)
    [] s.pc = "variables_digits" -> variables_digits(s)
    [] s.pc = "clauses_first" -> clauses_first(s)
    [] s.pc = "clauses_digits" -> clauses_digits(s)
    [] s.pc = "header_cr" -> header_cr(s)
    [] s.pc = "header_space" -> header_space(s)
    [] s.pc = "open_output" -> open_output(s, res)
    [] s.pc = "body" -> body(s)
    [] s.pc = "body_comment" -> body_comment(s)
    [] s.pc = "body_cr" -> body_cr(s)
    [] s.pc = "literal_sign" -> literal_sign(s)
    [] s.pc = "literal_digits" -> literal_digits(s)
    [] s.pc = "literal_cr" -> literal_cr(s)
    [] s.pc = "literal_comment" -> literal_comment(s)
    [] s.pc = "close" -> close(s, res)
    [] OTHER -> s

RECURSIVE Iterate(_)
Iterate(s) == IF s.pc = "exit" THEN s ELSE Iterate(Step(s, "ok"))

Run(in, g) == Iterate(Start(in, g, NoPath, NoPath))

-----------------------------------------------------------------------------
(* The inputs of the model.                                                *)

MaxRaw == 2
MaxPieces == 3
MaxClauses == 2
MaxZeros == 1

\* All sequences over S of length at most n.
SeqsUpTo(S, n) == UNION {[1..k -> S] : k \in 0..n}

RECURSIVE Flatten(_)
Flatten(ss) == IF ss = <<>> THEN <<>> ELSE Head(ss) \o Flatten(Tail(ss))

Alphabet == {"c", "p", "x", " ", "\t", "\r", "\n", "-", "0", "1", "3"}

Prefixes(w) == {SubSeq(w, 1, k) : k \in 0..Len(w)}

Substitutions(w) ==
  {[w EXCEPT ![i] = c] : i \in 1..Len(w), c \in Alphabet}

Insertions(w) ==
  {SubSeq(w, 1, i) \o <<c>> \o SubSeq(w, i + 1, Len(w)) :
     i \in 0..Len(w), c \in Alphabet}

Neighbours(w) == Prefixes(w) \cup Substitutions(w) \cup Insertions(w)

PCnf == <<"p", " ", "c", "n", "f", " ">>

\* "c hi\np cnf 2 1\n1 -2 0\n", the example of the documentation
Example ==
  <<"c", " ", "h", "i", "\n">> \o PCnf \o <<"2", " ", "1", "\n">>
    \o <<"1", " ", "-", "2", " ", "0", "\n">>

\* "c\n \t\n\np cnf 2 2 \r\n1\n-2 0\r\n2 0c\n"
Decorated ==
  <<"c", "\n", " ", "\t", "\n", "\n">> \o PCnf \o <<"2", " ", "2", " ", "\r", "\n">>
    \o <<"1", "\n", "-", "2", " ", "0", "\r", "\n", "2", " ", "0", "c", "\n">>

\* Decimal numerals around INT_MAX, and small ones with leading zeros.
Zeros(k) == [i \in 1..k |-> "0"]

IntMaxDigits == <<"2", "1", "4", "7", "4", "8", "3", "6", "4", "7">>

BigNumerals ==
  {IntMaxDigits,
   [IntMaxDigits EXCEPT ![10] = "6"],
   [IntMaxDigits EXCEPT ![10] = "8"],
   [IntMaxDigits EXCEPT ![9] = "5", ![10] = "0"],
   [IntMaxDigits EXCEPT ![1] = "3"],
   IntMaxDigits \o <<"0">>,
   SubSeq(IntMaxDigits, 1, 9)}

SmallNumerals == {<<"0">>, <<"1">>, <<"2">>}

Numerals ==
  {Zeros(k) \o n : k \in 0..MaxZeros, n \in SmallNumerals \cup BigNumerals}

HeaderOf(v, c) == PCnf \o v \o <<" ">> \o c \o <<"\n">>

NumeralInputs ==
  {HeaderOf(v, c) : v \in Numerals, c \in {<<"0">>}}
  \cup {HeaderOf(<<"0">>, c) : c \in Numerals}
  \cup {HeaderOf(IntMaxDigits, <<"1">>) \o s \o n \o <<" ", "0", "\n">> :
          s \in {<<>>, <<"-">>}, n \in Numerals}

\* Bodies after a header that declares two variables and k clauses: every
\* string of at most MaxRaw characters, and every sequence of at most
\* MaxPieces tokens with a separator each.
Pieces ==
  {<<"1", " ">>, <<"-", "2", "\n">>, <<"0", "\n">>, <<"0", " ">>, <<"0">>,
   <<"c", "\n">>}

Bodies ==
  SeqsUpTo(Alphabet, MaxRaw) \cup {Flatten(ps) : ps \in SeqsUpTo(Pieces, MaxPieces)}

BodyInputs ==
  {HeaderOf(<<"2">>, <<Digits[k + 1]>>) \o b : k \in 0..MaxClauses, b \in Bodies}

Inputs ==
  Neighbours(Example) \cup Neighbours(Decorated) \cup NumeralInputs \cup BodyInputs

-----------------------------------------------------------------------------
(* The state machine.                                                      *)

Cur ==
  [pc |-> pc, gbd |-> gbd, input_path |-> input_path, output_path |-> output_path,
   input_file |-> input_file, pos |-> pos, close_input |-> close_input,
   input_open |-> input_open, ch |-> ch, p |-> p, variables |-> variables,
   clauses |-> clauses, parsed |-> parsed, lit |-> lit, sign |-> sign,
   first |-> first, output_file |-> output_file, close_output |-> close_output,
   output_open |-> output_open, stderr |-> stderr, exit_code |-> exit_code,
   input_released |-> input_released, output_released |-> output_released,
   pclose_result |-> pclose_result]

Is(s) ==
  /\ pc = s.pc /\ gbd = s.gbd /\ input_path = s.input_path
  /\ output_path = s.output_path /\ input_file = s.input_file /\ pos = s.pos
  /\ close_input = s.close_input /\ input_open = s.input_open /\ ch = s.ch
  /\ p = s.p /\ variables = s.variables /\ clauses = s.clauses
  /\ parsed = s.parsed /\ lit = s.lit /\ sign = s.sign /\ first = s.first
  /\ output_file = s.output_file /\ close_output = s.close_output
  /\ output_open = s.output_open /\ stderr = s.stderr /\ exit_code = s.exit_code
  /\ input_released = s.input_released /\ output_released = s.output_released
  /\ pclose_result = s.pclose_result

Becomes(s) ==
  /\ pc' = s.pc /\ gbd' = s.gbd /\ input_path' = s.input_path
  /\ output_path' = s.output_path /\ input_file' = s.input_file /\ pos' = s.pos
  /\ close_input' = s.close_input /\ input_open' = s.input_open /\ ch' = s.ch
  /\ p' = s.p /\ variables' = s.variables /\ clauses' = s.clauses
  /\ parsed' = s.parsed /\ lit' = s.lit /\ sign' = s.sign /\ first' = s.first
  /\ output_file' = s.output_file /\ close_output' = s.close_output
  /\ output_open' = s.output_open /\ stderr' = s.stderr
  /\ exit_code' = s.exit_code
  /\ input_released' = s.input_released /\ output_released' = s.output_released
  /\ pclose_result' = s.pclose_result

\* Every input with the default streams, and the documentation's example with
\* every pair of paths.
Init ==
  \E in \in Inputs, g \in BOOLEAN, ipath \in Paths, opath \in Paths :
    /\ in # Example => ipath = NoPath /\ opath = NoPath
    /\ Is(Start(in, g, ipath, opath))

OpenInput ==
  /\ pc = "open_input"
  /\ \E res \in {"ok", "missing", "fail"} : Becomes(open_input(Cur, res))

Preamble == pc = "preamble" /\ Becomes(preamble(Cur))

PreambleComment == pc = "preamble_comment" /\ Becomes(preamble_comment(Cur))

PreambleSpace == pc = "preamble_space" /\ Becomes(preamble_space(Cur))

Header == pc = "header" /\ Becomes(header(Cur))

VariablesFirst == pc = "variables_first" /\ Becomes(variables_first(Cur))

VariablesDigits == pc = "variables_digits" /\ Becomes(variables_digits(Cur))

ClausesFirst == pc = "clauses_first" /\ Becomes(clauses_first(Cur))

ClausesDigits == pc = "clauses_digits" /\ Becomes(clauses_digits(Cur))

HeaderCr == pc = "header_cr" /\ Becomes(header_cr(Cur))

HeaderSpace == pc = "header_space" /\ Becomes(header_space(Cur))

OpenOutput ==
  /\ pc = "open_output"
  /\ \E res \in {"ok", "fail"} : Becomes(open_output(Cur, res))

Body == pc = "body" /\ Becomes(body(Cur))

BodyComment == pc = "body_comment" /\ Becomes(body_comment(Cur))

BodyCr == pc = "body_cr" /\ Becomes(body_cr(Cur))

LiteralSign == pc = "literal_sign" /\ Becomes(literal_sign(Cur))

LiteralDigits == pc = "literal_digits" /\ Becomes(literal_digits(Cur))

LiteralCr == pc = "literal_cr" /\ Becomes(literal_cr(Cur))

LiteralComment == pc = "literal_comment" /\ Becomes(literal_comment(Cur))

Close ==
  /\ pc = "close"
  /\ \E res \in {"ok", "fail"} : Becomes(close(Cur, res))

Next ==
  \/ OpenInput
  \/ Preamble
  \/ PreambleComment
  \/ PreambleSpace
  \/ Header
  \/ VariablesFirst
  \/ VariablesDigits
  \/ ClausesFirst
  \/ ClausesDigits
  \/ HeaderCr
  \/ HeaderSpace
  \/ OpenOutput
  \/ Body
  \/ BodyComment
  \/ BodyCr
  \/ LiteralSign
  \/ LiteralDigits
  \/ LiteralCr
  \/ LiteralComment
  \/ Close

Spec == Init /\ [][Next]_vars

-----------------------------------------------------------------------------
(* The DIMACS reading of an input, for the statements below: where the     *)
(* header line and the body are, the numerals of the header, and the       *)
(* tokens of the body once comments are removed.                           *)

White == {" ", "\t", "\r", "\n"}

Least(S) == CHOOSE i \in S : \A j \in S : i <= j

\* The first line that begins with "p" (0 when there is none).
HeaderStart(in) ==
  LET S == {i \in 1..Len(in) : in[i] = "p" /\ (i = 1 \/ in[i - 1] = "\n")}
  IN IF S = {} THEN 0 ELSE Least(S)

\* The first position after the header line.
BodyStart(in) ==
  Least({i \in 1..Len(in) + 1 :
           i > HeaderStart(in) /\ (i = Len(in) + 1 \/ in[i - 1] = "\n")})

BodyOf(in) == SubSeq(in, BodyStart(in), Len(in))

\* The longest run of digits of w that begins at position i.
DigitRunFrom(w, i) ==
  SubSeq(w, i, Least({j \in (i - 1)..Len(w) :
                        j = Len(w) \/ ~isdigit(w[j + 1])}))

\* The longest run of digits of w that ends at position j.
DigitRunTo(w, j) ==
  SubSeq(w, Least({i \in 1..(j + 1) : \A k \in i..j : isdigit(w[k])}), j)

VariablesNumeral(in) == DigitRunFrom(in, HeaderStart(in) + Len(PCnf))

ClausesNumeral(in) ==
  DigitRunFrom(in, HeaderStart(in) + Len(PCnf) + Len(VariablesNumeral(in)) + 1)

\* A numeral without its leading zeros.
RECURSIVE Canonical(_)
Canonical(ds) ==
  IF Len(ds) > 1 /\ Head(ds) = "0" THEN Canonical(Tail(ds)) ELSE ds

\* The numeral ds denotes a number above INT_MAX: it is longer than
\* INT_MAX's numeral, or as long and later in the order of numerals.
IntMaxNumeral == <<"2", "1", "4", "7", "4", "8", "3", "6", "4", "7">>

ExceedsIntMax(ds) ==
  LET d == Canonical(ds) IN
  \/ Len(d) > Len(IntMaxNumeral)
  \/ /\ Len(d) = Len(IntMaxNumeral)
     /\ \E i \in 1..Len(d) :
          /\ \A k \in 1..(i - 1) : d[k] = IntMaxNumeral[k]
          /\ DigitValue(d[i]) > DigitValue(IntMaxNumeral[i])

\* w with every comment (from "c" to the end of its line) replaced by the
\* newline that ends it.
RECURSIVE Uncomment(_, _)
Uncomment(w, inComment) ==
  IF w = <<>> THEN <<>>
  ELSE IF inComment
       THEN IF Head(w) = "\n" THEN <<"\n">> \o Uncomment(Tail(w), FALSE)
            ELSE Uncomment(Tail(w), TRUE)
  ELSE IF Head(w) = "c" THEN Uncomment(Tail(w), TRUE)
  ELSE <<Head(w)>> \o Uncomment(Tail(w), FALSE)

\* w ends inside a comment that no newline ends.
RECURSIVE EndsInComment(_, _)
EndsInComment(w, inComment) ==
  IF w = <<>> THEN inComment
  ELSE IF inComment THEN EndsInComment(Tail(w), Head(w) # "\n")
  ELSE EndsInComment(Tail(w), Head(w) = "c")

\* The maximal runs of characters of w that are not white space.
RECURSIVE Words(_, _)
Words(w, cur) ==
  IF w = <<>> THEN (IF cur = <<>> THEN <<>> ELSE <<cur>>)
  ELSE IF Head(w) \in White
       THEN (IF cur = <<>> THEN <<>> ELSE <<cur>>) \o Words(Tail(w), <<>>)
  ELSE Words(Tail(w), Append(cur, Head(w)))

Tokens(in) == Words(Uncomment(BodyOf(in), FALSE), <<>>)

Magnitude(tok) == IF Head(tok) = "-" THEN Tail(tok) ELSE tok

IsTerminator(tok) == \A i \in 1..Len(Magnitude(tok)) : Magnitude(tok)[i] = "0"

Terminators(toks) == Cardinality({i \in 1..Len(toks) : IsTerminator(toks[i])})

\* The canonical rendering of one token in Standard mode.
Rendered(tok) ==
  IF IsTerminator(tok) THEN <<"0", "\n">>
  ELSE (IF Head(tok) = "-" THEN <<"-">> ELSE <<>>)
         \o Canonical(Magnitude(tok)) \o <<" ">>

StandardOutput(in) ==
  PCnf \o Canonical(VariablesNumeral(in)) \o <<" ">>
       \o Canonical(ClausesNumeral(in)) \o <<"\n">>
       \o Flatten([i \in 1..Len(Tokens(in)) |-> Rendered(Tokens(in)[i])])

Accepted == pc = "exit" /\ exit_code = 0

Message == IF Len(stderr) = 5 THEN stderr[4] ELSE "none"

-----------------------------------------------------------------------------
(* C1: in Standard mode the complete output of an accepted input is the    *)
(* line "p cnf <variables> <clauses>" with the declared values in          *)
(* canonical decimal, then for each token of the body in order a non-zero  *)
(* literal as signed decimal plus one space, or "0" and a newline for a    *)
(* terminator, and nothing else.                                           *)
C1_StandardOutputExact ==
  (Accepted /\ ~gbd) => output_file = StandardOutput(input_file)

\* An accepted Standard run over comments, a negative literal and two clauses.
C1_Witness ==
  /\ Accepted /\ ~gbd /\ parsed = 2
  /\ \E i \in 1..Len(input_file) : input_file[i] = "c"
  /\ \E i \in 1..Len(output_file) : output_file[i] = "-"
  /\ Len(output_file) < Len(input_file)
  /\ output_file = StandardOutput(input_file)

\* What has been written after the header line, and its tokens.
OutputBody ==
  IF gbd THEN output_file
  ELSE SubSeq(output_file,
              Least({i \in 1..Len(output_file) + 1 :
                       i = Len(output_file) + 1 \/ output_file[i] = "\n"}) + 1,
              Len(output_file))

OutputTokens == Words(OutputBody, <<>>)

\* The input as far as it has been read.
Consumed == SubSeq(input_file, 1, pos)

(* C2: an input is accepted only if the number of terminators in its body  *)
(* is exactly the declared clause count, and then exactly that many        *)
(* terminators have been written; with fewer terminators the run ends in   *)
(* "clause missing", and the terminator after the declared count ends it   *)
(* in "too many clauses".                                                  *)
C2_ClauseCountExact ==
  /\ Accepted =>
       /\ PrintInt(clauses) = Canonical(ClausesNumeral(input_file))
       /\ Terminators(Tokens(input_file)) = clauses
       /\ Terminators(OutputTokens) = clauses
  /\ (pc = "exit" /\ Message = "clause missing") =>
       Terminators(Tokens(input_file)) < clauses
  /\ (pc = "exit" /\ Message = "too many clauses") =>
       /\ Terminators(Tokens(Consumed)) = clauses + 1
       /\ Terminators(OutputTokens) = clauses

\* An accepted run with two declared clauses, both written.
C2_Witness ==
  /\ Accepted /\ clauses = 2
  /\ Terminators(Tokens(input_file)) = 2
  /\ Terminators(OutputTokens) = 2

\* The magnitude a token of the output denotes.
RECURSIVE NumeralValue(_)
NumeralValue(ds) ==
  IF ds = <<>> THEN 0
  ELSE NumeralValue(SubSeq(ds, 1, Len(ds) - 1)) * 10 + DigitValue(ds[Len(ds)])

(* C3: in every reachable state every non-zero literal written to the      *)
(* output has a magnitude between 1 and the declared variable count; a     *)
(* literal above the count ends the run before it is written.              *)
C3_LiteralBound ==
  /\ \A i \in 1..Len(OutputTokens) :
       LET m == NumeralValue(Magnitude(OutputTokens[i])) IN
       m = 0 \/ (1 <= m /\ m <= variables)
  /\ (pc = "body" /\ lit # 0) => (1 <= lit /\ lit <= variables)

\* A literal equal to the declared variable count has been written.
C3_Witness ==
  /\ variables = 2
  /\ \E i \in 1..Len(OutputTokens) : NumeralValue(Magnitude(OutputTokens[i])) = 2

\* The single line GBD mode makes of a Standard output: the header line is
\* dropped, the newline after each clause too, and the clauses are joined
\* by one space.
RECURSIVE JoinLines(_)
JoinLines(w) ==
  IF w = <<>> THEN <<>>
  ELSE IF Head(w) = "\n"
       THEN (IF Tail(w) = <<>> THEN <<>> ELSE <<" ">> \o JoinLines(Tail(w)))
  ELSE <<Head(w)>> \o JoinLines(Tail(w))

AfterFirstLine(w) ==
  SubSeq(w, Least({i \in 1..Len(w) + 1 : i = Len(w) + 1 \/ w[i] = "\n"}) + 1,
         Len(w))

GbdOf(std) == JoinLines(AfterFirstLine(std))

(* C4: the GBD output of an accepted input has no newline and no header    *)
(* line, and is the Standard output of the same input without its header   *)
(* line, with the newline after each clause removed and consecutive        *)
(* clauses joined by exactly one space, clauses without literals included. *)
C4_GbdSingleLine ==
  (Accepted /\ gbd) =>
    /\ \A i \in 1..Len(output_file) : output_file[i] # "\n"
    /\ Run(input_file, FALSE).exit_code = 0
    /\ output_file = GbdOf(Run(input_file, FALSE).output_file)

\* An accepted GBD run of two clauses, the second without literals.
C4_Witness ==
  /\ Accepted /\ gbd /\ parsed = 2
  /\ \E i \in 1..(Len(output_file) - 2) :
       output_file[i] = "0" /\ output_file[i + 1] = " " /\ output_file[i + 2] = "0"
  /\ \E i \in 1..Len(output_file) : output_file[i] \in {"1", "2"}

(* C5: the Standard-mode output of an accepted input is itself accepted,   *)
(* and normalizing it again in Standard mode gives the same bytes.         *)
C5_RoundTrip ==
  (Accepted /\ ~gbd) =>
    /\ Run(output_file, FALSE).exit_code = 0
    /\ Run(output_file, FALSE).output_file = output_file

\* An accepted Standard run whose output differs from its input.
C5_Witness ==
  /\ Accepted /\ ~gbd /\ parsed = 2
  /\ output_file # input_file
  /\ \E i \in 1..Len(output_file) : output_file[i] = "-"
  /\ Run(output_file, FALSE).output_file = output_file

LineBoundaries(in) == {0} \cup {i \in 1..Len(in) : in[i] = "\n"}

CommentLines == {<<"c", "\n">>, <<"c", "p", " ", "0", "c", "\r", "\n">>}

InsertAt(in, i, w) == SubSeq(in, 1, i) \o w \o SubSeq(in, i + 1, Len(in))

(* C6: a complete comment line inserted at the start of an accepted input  *)
(* or after any of its newlines (before, between and after the lines of    *)
(* the preamble, after the header line, anywhere in the body) gives an     *)
(* input that is accepted with the same output, in either mode.            *)
C6_CommentTransparency ==
  Accepted =>
    \A i \in LineBoundaries(input_file), cm \in CommentLines :
      LET r == Run(InsertAt(input_file, i, cm), gbd) IN
      r.exit_code = 0 /\ r.output_file = output_file

\* An accepted input with a preamble and a newline between two literals of
\* one clause.
C6_Witness ==
  /\ Accepted
  /\ HeaderStart(input_file) > 1
  /\ \E i \in 2..(Len(input_file) - 1) :
       /\ input_file[i] = "\n"
       /\ input_file[i - 1] = "1"
       /\ input_file[i + 1] = "-"
  /\ Run(InsertAt(input_file, BodyStart(input_file) + 1, <<"c", "\n">>), gbd).output_file
       = output_file

\* The digits read by the digit loop the program is in.
DigitsRead == DigitRunTo(input_file, pos)

\* The errors of the three scanners; inside a numeral (ch a digit) they are
\* the overflow errors.
ScannerMessages ==
  {"invalid number of variables", "invalid number of clauses", "invalid literal"}

(* C7: at the three scanners (variables, clauses, literal) the accumulator *)
(* never leaves 0..INT_MAX and is the value of the digits read so far; a   *)
(* numeral up to INT_MAX is scanned, and the digit that takes the value    *)
(* above INT_MAX ends the run with the scanner's error, and nothing else   *)
(* does so inside a numeral.                                               *)
C7_OverflowBoundary ==
  /\ \A acc \in {variables, clauses, lit} : 0 <= acc /\ acc <= INT_MAX
  /\ pc = "variables_digits" =>
       ~ExceedsIntMax(DigitsRead) /\ PrintInt(variables) = Canonical(DigitsRead)
  /\ pc = "clauses_digits" =>
       ~ExceedsIntMax(DigitsRead) /\ PrintInt(clauses) = Canonical(DigitsRead)
  /\ pc = "literal_digits" =>
       ~ExceedsIntMax(DigitsRead) /\ PrintInt(lit) = Canonical(DigitsRead)
  /\ (pc = "exit" /\ isdigit(ch) /\ Message \in ScannerMessages) =>
       /\ ExceedsIntMax(DigitsRead)
       /\ ~ExceedsIntMax(SubSeq(DigitsRead, 1, Len(DigitsRead) - 1))

\* The three scanners have each read the numeral of INT_MAX.
C7_Witness ==
  /\ pc = "literal_digits" /\ lit = INT_MAX /\ variables = INT_MAX
  /\ DigitsRead = IntMaxNumeral

OpenClause(in) ==
  Tokens(in) # <<>> /\ ~IsTerminator(Tokens(in)[Len(Tokens(in))])

(* C8: no input is accepted whose body ends while a clause is open: the    *)
(* end of the stream read while the last literal is non-zero ends the run  *)
(* in an error, however many clauses have been terminated.                 *)
C8_NoOpenClauseAtEnd ==
  /\ Accepted => ~OpenClause(input_file)
  /\ (pc = "exit" /\ ch = EOF /\ lit # 0) => exit_code = 1

\* The stream ends in an open clause after the declared clauses.
C8_Witness ==
  /\ pc = "exit" /\ exit_code = 1
  /\ Message = "zero at end of last clause missing"
  /\ clauses >= 1 /\ parsed = clauses
  /\ OpenClause(input_file)

Messages ==
  {"input file '%s' does not exist", "can not read input file '%s'",
   "end-of-file in comment", "unexpected end-of-file after white-space",
   "expected 'p cnf ...' header or 'c' comment", "invalid 'p cnf ...' header",
   "invalid number of variables", "expected space in header after variables",
   "invalid number of clauses",
   "expected white-space and a new-line after clauses",
   "can not write output file '%s'", "zero at end of last clause missing",
   "clause missing", "invalid literal", "expected white-space after literal",
   "too many clauses"}

OneMessage ==
  /\ Len(stderr) = 5
  /\ stderr[1] = "normalize: error in '"
  /\ stderr[2] = input_path
  /\ stderr[3] = "': "
  /\ stderr[4] \in Messages
  /\ stderr[5] = "\n"

(* C9: every error is fatal where it is detected: the process has exited   *)
(* exactly when it has an exit code, the code is 1 exactly when an error   *)
(* was reported, with one message of the form "normalize: error in         *)
(* '<input-path>': <message>", and 0 otherwise; and once an error is       *)
(* reported nothing more is read, written or reported.                     *)
C9_ErrorsAreFatal ==
  /\ [](/\ exit_code \in {NoExit, 0, 1}
        /\ (pc = "exit") <=> (exit_code # NoExit)
        /\ (exit_code = 1) <=> (stderr # <<>>)
        /\ stderr # <<>> => OneMessage)
  /\ [][stderr # <<>> => UNCHANGED <<pos, output_file, stderr, exit_code>>]_vars

\* An error in the middle of the body: output written, input left unread.
C9_Witness ==
  /\ pc = "exit" /\ exit_code = 1 /\ OneMessage
  /\ output_file # <<>>
  /\ pos < Len(input_file)

(* C10: when the stream ends inside a comment of the body, the input is    *)
(* accepted if no clause is open and the declared number of terminators    *)
(* has been read, wherever the comment starts, also directly after a       *)
(* token; with a clause open or fewer terminators than declared the run    *)
(* ends in "end-of-file in comment".                                       *)
C10_EofInCommentTolerated ==
  (/\ pc = "exit" /\ ch = EOF
   /\ (output_open \/ exit_code = 0)
   /\ EndsInComment(BodyOf(input_file), FALSE)) =>
    IF ~OpenClause(input_file) /\ Terminators(Tokens(input_file)) = clauses
    THEN exit_code = 0
    ELSE IF OpenClause(input_file) \/ Terminators(Tokens(input_file)) < clauses
    THEN exit_code = 1 /\ Message = "end-of-file in comment"
    ELSE TRUE

\* The positions of the body at which one token has ended and the next has
\* not begun: the start of the body, the end of the input, and either side
\* of a white-space character, outside comments.
TokenGaps(in) ==
  {i \in (BodyStart(in) - 1)..Len(in) :
     /\ ~EndsInComment(SubSeq(in, BodyStart(in), i), FALSE)
     /\ \/ i = BodyStart(in) - 1
        \/ i = Len(in)
        \/ in[i] \in White
        \/ in[i + 1] \in White}

\* The runs of one or two white-space characters, in every order.
WhiteRuns == {<<a>> : a \in White} \cup {<<a, b>> : a \in White, b \in White}

(* C11: a run of spaces, tabs, carriage returns and newlines, in any order *)
(* and of any length, put before the first token of the body of an         *)
(* accepted input, between two of its tokens or after the last one gives   *)
(* an input that is accepted with the same output.                         *)
C11_WhitespaceSkipped ==
  Accepted =>
    \A i \in TokenGaps(input_file), ws \in WhiteRuns :
      LET r == Run(InsertAt(input_file, i, ws), gbd) IN
      r.exit_code = 0 /\ r.output_file = output_file

LineStarts(in) == {i \in 1..Len(in) : i = 1 \/ in[i - 1] = "\n"}

\* The position of the newline that ends the line beginning at i, or one
\* past the end of the input when no newline ends it.
LineEnd(in, i) ==
  Least({j \in i..(Len(in) + 1) : j = Len(in) + 1 \/ in[j] = "\n"})

\* The line beginning at i is a comment line, or has nothing but horizontal
\* white space before its end.
Skippable(in, i) ==
  \/ in[i] = "c"
  \/ \A k \in i..(LineEnd(in, i) - 1) : in[k] \in {" ", "\t", "\r"}

\* The input has no header line and its last line is a comment that no
\* newline ends.
PreambleEndsInComment(in) ==
  /\ HeaderStart(in) = 0
  /\ \E i \in LineStarts(in) : in[i] = "c" /\ LineEnd(in, i) = Len(in) + 1

(* C12: every line before the header line of an accepted input is a        *)
(* comment line or consists solely of horizontal white space, so an input  *)
(* with any other line before its header is rejected; and an input that    *)
(* ends inside a comment of the preamble is rejected.                      *)
C12_PreambleLines ==
  /\ Accepted =>
       /\ HeaderStart(input_file) > 0
       /\ \A i \in LineStarts(input_file) :
            i < HeaderStart(input_file) => Skippable(input_file, i)
  /\ (pc = "exit" /\ PreambleEndsInComment(input_file)) => exit_code = 1

\* An optional "-" and then one or more digits, nothing else.
WellFormedToken(tok) ==
  /\ Magnitude(tok) # <<>>
  /\ \A i \in 1..Len(Magnitude(tok)) : isdigit(Magnitude(tok)[i])

Fatal == pc = "exit" /\ exit_code = 1

DigitChars == {Digits[i] : i \in 1..Len(Digits)}

(* C13: every token of the body that the parser has gone past is an        *)
(* optional "-" and digits, ended by white space, a comment or the end of  *)
(* the stream; a character that can not begin a token, or a "-" without a  *)
(* digit after it, ends the run in "invalid literal", and any other        *)
(* character after the digits of a literal (a "-", a letter other than     *)
(* "c") ends it in an error.                                               *)
C13_LiteralShape ==
  /\ []((pc \in {"body", "close"} \/ Accepted) =>
          \A i \in 1..Len(Tokens(Consumed)) : WellFormedToken(Tokens(Consumed)[i]))
  /\ [](Message = "expected white-space after literal" =>
          /\ Fatal
          /\ ch \notin {" ", "\n", "\t", "c", EOF}
          /\ isdigit(input_file[pos - 1]) \/ input_file[pos - 1] = "\r")
  /\ [][(/\ pc \in {"body", "body_cr"}
         /\ Peek(Cur) \notin White \cup DigitChars \cup {"c", "-", EOF}) =>
          (Fatal /\ Message = "invalid literal")']_vars
  /\ [][(pc = "literal_sign" /\ Peek(Cur) \notin DigitChars) =>
          (Fatal /\ Message = "invalid literal")']_vars
  /\ [][(/\ pc \in {"literal_digits", "literal_cr"}
         /\ Peek(Cur) \notin White \cup DigitChars \cup {"c", EOF}) => Fatal']_vars

\* A literal directly followed by "-", after output has been written.
C13_Witness ==
  /\ Fatal /\ Message = "expected white-space after literal"
  /\ ch = "-" /\ isdigit(input_file[pos - 1])
  /\ output_file # <<>>

\* The positions of the program inside the body loop (lines 172-242).
BodyPcs ==
  {"body", "body_comment", "body_cr", "literal_sign", "literal_digits",
   "literal_cr", "literal_comment"}

(* C14: while the body is parsed, and when it has been accepted, the       *)
(* number of terminators written is the number counted in parsed and never *)
(* above the declared count, and between two tokens it is the number of    *)
(* terminators read; the terminator read after the declared count has been *)
(* reached ends the run in "too many clauses" and is not written (parsed   *)
(* has then counted it: the written terminators are one fewer).            *)
C14_TerminatorsCounted ==
  /\ Terminators(OutputTokens) <= clauses
  /\ Message # "too many clauses" => Terminators(OutputTokens) = parsed
  /\ pc = "body" => parsed = Terminators(Tokens(Consumed))
  /\ Message = "too many clauses" =>
       /\ Fatal
       /\ lit = 0
       /\ parsed = clauses + 1
       /\ Terminators(OutputTokens) = clauses

\* The second terminator of a body whose header declares one clause.
C14_Witness ==
  /\ Fatal /\ Message = "too many clauses"
  /\ clauses = 1 /\ parsed = 2
  /\ Terminators(OutputTokens) = 1
  /\ pos < Len(input_file)

IsPrefix(a, b) == Len(a) <= Len(b) /\ SubSeq(b, 1, Len(a)) = a

\* The header line of the Standard output of the input in.
HeaderLineOf(in) ==
  PCnf \o Canonical(VariablesNumeral(in)) \o <<" ">>
       \o Canonical(ClausesNumeral(in)) \o <<"\n">>

\* The output owed for the part of the input read so far.
OutputOwed ==
  IF gbd THEN GbdOf(StandardOutput(Consumed)) ELSE StandardOutput(Consumed)

\* The parsing state is one character, the last literal and counters.
ScalarState ==
  /\ ch = EOF \/ \E i \in 1..Len(input_file) : ch = input_file[i]
  /\ lit \in 0..INT_MAX /\ sign \in {1, -1} /\ first \in BOOLEAN
  /\ variables \in 0..INT_MAX /\ clauses \in 0..INT_MAX
  /\ parsed \in Nat /\ parsed - 1 <= clauses

(* C15: output is only ever appended to; in Standard mode the header line  *)
(* is in the output before the first character of the body is read;        *)
(* whenever the parser is about to read the next token, the output is the  *)
(* complete output owed for the input read so far (every literal and       *)
(* terminator read has been written); and the parsing state is one         *)
(* lookahead character, the last literal and the counters.                 *)
C15_Streaming ==
  /\ [][IsPrefix(output_file, output_file')]_vars
  /\ []((pc \in BodyPcs /\ ~gbd) => IsPrefix(HeaderLineOf(input_file), output_file))
  /\ [][(pc = "body" /\ ~gbd /\ pos < BodyStart(input_file)
                      /\ pos' >= BodyStart(input_file)) =>
          output_file = HeaderLineOf(input_file)]_vars
  /\ [](pc = "body" => output_file = OutputOwed)
  /\ []ScalarState

\* Between two literals of the second clause: the first clause and the
\* literal are written, the rest of the input is unread.
C15_Witness ==
  /\ pc = "body" /\ ~gbd /\ lit # 0 /\ parsed = 1
  /\ pos < Len(input_file)
  /\ output_file = StandardOutput(Consumed)
  /\ output_file[Len(output_file)] = " "

\* The program has opened the stream itself (not stdin or stdout).
InputOpened == close_input # 0 /\ (input_open \/ input_released # "no")

OutputOpened == close_output # 0 /\ (output_open \/ output_released # "no")

(* C16: when the process has ended, every file it opened has been closed   *)
(* (by the program, or at an error exit by exit(), which closes the open   *)
(* files), every pipe to a compression subprocess it opened has been       *)
(* closed with pclose, which waits for the subprocess, also at an error    *)
(* exit, and a failure reported by the subprocess has made the exit code   *)
(* non-zero.                                                               *)
C16_StreamsReleased ==
  pc = "exit" =>
    /\ (InputOpened /\ close_input = 1) => (input_released = "fclose" \/ exit_code = 1)
    /\ (OutputOpened /\ close_output = 1) => (output_released = "fclose" \/ exit_code = 1)
    /\ (InputOpened /\ close_input = 2) => input_released = "pclose"
    /\ (OutputOpened /\ close_output = 2) => output_released = "pclose"
    /\ pclose_result = "fail" => exit_code = 1

\* The clauses without a literal: the terminators that are the first token
\* or follow another terminator.
EmptyClauses(toks) ==
  Cardinality({i \in 1..Len(toks) :
                 IsTerminator(toks[i]) /\ (i = 1 \/ IsTerminator(toks[i - 1]))})

(* C17 as claimed: no accepted input has a clause without a literal.       *)
C17_ClausesNonEmpty == Accepted => EmptyClauses(Tokens(input_file)) = 0

\* The number a numeral within INT_MAX denotes.
ValueOf(ds) == NumeralValue(Canonical(ds))

\* A plain input: the header line alone at the start, numerals within
\* INT_MAX, a body of well-formed literals within the declared range
\* separated by spaces, tabs and newlines, as many terminators as declared,
\* no clause left open.  Clauses may be empty.
Plain(in) ==
  LET v == VariablesNumeral(in)
      c == ClausesNumeral(in)
      toks == Tokens(in)
  IN
  /\ HeaderStart(in) = 1
  /\ v # <<>> /\ c # <<>> /\ ~ExceedsIntMax(v) /\ ~ExceedsIntMax(c)
  /\ SubSeq(in, 1, BodyStart(in) - 1) = HeaderOf(v, c)
  /\ \A i \in BodyStart(in)..Len(in) :
       in[i] \in DigitChars \cup {"-", " ", "\t", "\n"}
  /\ \A i \in 1..Len(toks) :
       /\ WellFormedToken(toks[i])
       /\ ~IsTerminator(toks[i]) =>
            /\ ~ExceedsIntMax(Magnitude(toks[i]))
            /\ ValueOf(Magnitude(toks[i])) <= ValueOf(v)
  /\ Terminators(toks) = ValueOf(c)
  /\ toks = <<>> \/ IsTerminator(toks[Len(toks)])

(* C17, amended: a clause of an accepted input may be empty.  A terminator *)
(* that is the first token of the body or follows another terminator is    *)
(* accepted, counted and written as a clause of its own: the output of an  *)
(* accepted input has as many clauses without literals as the input, and   *)
(* every plain input is accepted when its streams open, empty clauses or   *)
(* not.                                                                    *)
C17_EmptyClausesAccepted ==
  /\ Accepted =>
       EmptyClauses(OutputTokens) = EmptyClauses(Tokens(input_file))
  /\ (pc = "exit" /\ Plain(input_file)) =>
       \/ exit_code = 0
       \/ Message \in {"input file '%s' does not exist",
                       "can not read input file '%s'",
                       "can not write output file '%s'"}

\* An accepted plain input of two clauses, one of them without a literal.
C17_Witness ==
  /\ Accepted /\ Plain(input_file)
  /\ parsed = 2
  /\ EmptyClauses(Tokens(input_file)) = 1
  /\ EmptyClauses(OutputTokens) = 1

\* The positions of the program before the body loop (lines 74-167).
HeaderPcs ==
  {"open_input", "preamble", "preamble_comment", "preamble_space", "header",
   "variables_first", "variables_digits", "clauses_first", "clauses_digits",
   "header_cr", "header_space", "open_output"}

\* The errors of lines 74-151 ("end-of-file in comment" is also an error of
\* the body and is told apart by the input having no header line).
HeaderMessages ==
  {"input file '%s' does not exist", "can not read input file '%s'",
   "unexpected end-of-file after white-space",
   "expected 'p cnf ...' header or 'c' comment", "invalid 'p cnf ...' header",
   "invalid number of variables", "expected space in header after variables",
   "invalid number of clauses",
   "expected white-space and a new-line after clauses"}

OutputUntouched ==
  ~output_open /\ output_released = "no" /\ output_file = <<>>

\* The header line has been read up to its newline and is well formed: h is
\* where it starts, v and c are its numerals, b is the position after it.
HeaderRead ==
  LET in == input_file
      h == HeaderStart(in)
      v == DigitRunFrom(in, h + Len(PCnf))
      c == DigitRunFrom(in, h + Len(PCnf) + Len(v) + 1)
      b == Least({i \in (h + 1)..(Len(in) + 1) :
                    i = Len(in) + 1 \/ in[i - 1] = "\n"})
  IN
  /\ h > 0
  /\ pos >= b - 1
  /\ in[b - 1] = "\n"
  /\ v # <<>> /\ ~ExceedsIntMax(v) /\ PrintInt(variables) = Canonical(v)
  /\ c # <<>> /\ ~ExceedsIntMax(c) /\ PrintInt(clauses) = Canonical(c)

(* C18: before the body loop the output is neither opened nor written; a   *)
(* run that ends in an error of the preamble or of the header line has     *)
(* opened no output and written no byte; and whenever the output has been  *)
(* opened or written, the header line has been read to its newline and     *)
(* both its numbers are valid.                                             *)
C18_OutputAfterHeader ==
  /\ pc \in HeaderPcs => OutputUntouched
  /\ (Fatal /\ (Message \in HeaderMessages \/ HeaderStart(input_file) = 0)) =>
       OutputUntouched
  /\ ~OutputUntouched => HeaderRead

\* A header line that is wrong only in its last character: nothing opened.
C18_Witness ==
  /\ Fatal /\ Message = "expected white-space and a new-line after clauses"
  /\ variables = 2 /\ clauses >= 1
  /\ OutputUntouched /\ close_output = 0

(* C19: the run of the same input in the other output mode reads the same  *)
(* number of characters and ends in the same way: the same exit code, the  *)
(* same message, the same last character read and the same values of the   *)
(* header and of the counters.  Only the bytes written (and the flag that  *)
(* serves GBD's separating space) depend on the mode.                      *)
C19_ModeIndependence ==
  (pc = "exit" /\ input_path = "<stdin>" /\ close_output = 0) =>
    LET r == Run(input_file, ~gbd) IN
    /\ r.pos = pos /\ r.ch = ch
    /\ r.exit_code = exit_code /\ r.stderr = stderr
    /\ r.variables = variables /\ r.clauses = clauses
    /\ r.parsed = parsed /\ r.lit = lit /\ r.sign = sign

\* A GBD run that ends in the middle of the body as the Standard run does,
\* with different bytes written.
C19_Witness ==
  /\ Fatal /\ gbd /\ Message = "too many clauses"
  /\ pos < Len(input_file)
  /\ Run(input_file, FALSE).pos = pos
  /\ Run(input_file, FALSE).stderr = stderr
  /\ Run(input_file, FALSE).output_file # output_file

\* The program is one sequential process that is never suspended for good:
\* a step that can be taken is taken.
\* The inputs of the runs followed to their end: the two base inputs cut at
\* every position (the end of the stream met in every loop and between any
\* two steps), and the example with one character replaced.
FairInputs ==
  Prefixes(Example) \cup Prefixes(Decorated) \cup Substitutions(Example)

FairInit ==
  \E in \in FairInputs, g \in BOOLEAN, ipath \in Paths, opath \in Paths :
    /\ in # Example => ipath = NoPath /\ opath = NoPath
    /\ Is(Start(in, g, ipath, opath))

FairSpec == FairInit /\ [][Next]_vars /\ WF_vars(Next)

\* The positions inside the skipping and scanning loops: the comment and
\* white-space lines of the preamble, the white space after the header, the
\* comments of the body, and the three digit loops.
LoopPcs ==
  {"preamble_comment", "preamble_space", "header_space", "body_comment",
   "literal_comment", "variables_digits", "clauses_digits", "literal_digits"}

(* C20: every run ends, with exit code 0 or 1; a step of a skipping or     *)
(* scanning loop taken at the end of the stream leaves the loop, one that  *)
(* stays in the loop has consumed one character, and every step but the    *)
(* opening and closing of the streams consumes one character unless the    *)
(* stream is at its end.                                                   *)
C20_Termination ==
  /\ <>(pc = "exit" /\ exit_code \in {0, 1})
  /\ [][(pc \in LoopPcs /\ pos = Len(input_file)) => pc' # pc]_vars
  /\ [][(pc \in LoopPcs /\ pc' = pc) => pos' = pos + 1]_vars
  /\ [][\/ pos' = pos + 1
        \/ pos = Len(input_file)
        \/ pc \in {"open_input", "open_output", "close"}]_vars

\* The end of the stream met inside the white-space loop of the preamble.
C20_Witness ==
  /\ Fatal /\ Message = "unexpected end-of-file after white-space"
  /\ ch = EOF /\ pos = Len(input_file) /\ pos >= 2

=============================================================================
